---- MODULE Spec2Model ----
(***************************************************************************)
(* Address reference-index builder (initialize_database) and the tiered    *)
(* match / risk-scoring engine (AddressAgent.validate) of the repository,  *)
(* in its three copies: AddressValidator_Agent ("AVA"), LBG_IPI_DQ_CHECKS  *)
(* ("DQ") and LBG_Integration_Orchestrator ("ORCH").                       *)
(*                                                                         *)
(* Strings are sequences of one-character strings, so that upper(), strip, *)
(* split, LIKE and the postcode regular expressions are computed, not      *)
(* assumed.  A NULL column of the SQLite table is the empty sequence: a    *)
(* CSV field read by pandas is either non-empty text or NaN (stored NULL), *)
(* so the table never holds an empty string.                               *)
(***************************************************************************)
EXTENDS Integers, Sequences, FiniteSets, TLC

(***************************************************************************)
(* Characters and the string primitives of Python and SQLite               *)
(***************************************************************************)
LowerLetters ==
  <<"a", "b", "c", "d", "e", "h", "k", "n", "o", "p", "q", "r", "s", "t", "u",
    "w", "x", "y", "z">>

UpperLetters ==
  <<"A", "B", "C", "D", "E", "H", "K", "N", "O", "P", "Q", "R", "S", "T", "U",
    "W", "X", "Y", "Z">>

\* the class [A-Z], as far as the letters that occur here go
UpperSet ==
  {UpperLetters[i] : i \in 1..Len(UpperLetters)} \cup
  {"D", "K", "P", "R", "S", "T", "U", "W"}

DigitSet == {"1", "2", "9"}

\* str.upper() / SQLite upper() on one ASCII character
UpperChar(c) ==
  IF \E i \in 1..Len(LowerLetters) : LowerLetters[i] = c
  THEN UpperLetters[CHOOSE i \in 1..Len(LowerLetters) : LowerLetters[i] = c]
  ELSE c

\* str.upper()
Upper(s) == [i \in 1..Len(s) |-> UpperChar(s[i])]

\* str.lower() on one ASCII character
LowerChar(c) ==
  IF \E i \in 1..Len(UpperLetters) : UpperLetters[i] = c
  THEN LowerLetters[CHOOSE i \in 1..Len(UpperLetters) : UpperLetters[i] = c]
  ELSE c

\* str.lower()
Lower(s) == [i \in 1..Len(s) |-> LowerChar(s[i])]

RECURSIVE LStrip(_, _)
LStrip(s, chars) ==
  IF s # <<>> /\ Head(s) \in chars THEN LStrip(Tail(s), chars) ELSE s

RECURSIVE RStrip(_, _)
RStrip(s, chars) ==
  IF s # <<>> /\ s[Len(s)] \in chars
  THEN RStrip(SubSeq(s, 1, Len(s) - 1), chars)
  ELSE s

\* str.strip(chars); str.strip() is StripChars(s, {" "})
StripChars(s, chars) == RStrip(LStrip(s, chars), chars)

Strip(s) == StripChars(s, {" "})

\* "c in s" for a one-character c
Contains(s, c) == \E i \in 1..Len(s) : s[i] = c

\* s.split(',')[0]: the text before the first comma (all of s when none)
BeforeComma(s) ==
  IF Contains(s, ",")
  THEN SubSeq(s, 1, (CHOOSE i \in 1..Len(s) :
                       s[i] = "," /\ \A j \in 1..(i - 1) : s[j] # ",") - 1)
  ELSE s

\* s.split(): the whitespace-delimited tokens, none of them empty
RECURSIVE SplitWs(_)
SplitWs(s) ==
  LET t == LStrip(s, {" "})
  IN IF t = <<>> THEN <<>>
     ELSE LET n == IF Contains(t, " ")
                   THEN (CHOOSE i \in 1..Len(t) :
                           t[i] = " " /\ \A j \in 1..(i - 1) : t[j] # " ") - 1
                   ELSE Len(t)
          IN <<SubSeq(t, 1, n)>> \o SplitWs(SubSeq(t, n + 1, Len(t)))

\* " ".join(parts)
RECURSIVE JoinSp(_)
JoinSp(parts) ==
  IF parts = <<>> THEN <<>>
  ELSE IF Len(parts) = 1 THEN parts[1]
  ELSE parts[1] \o <<" ">> \o JoinSp(Tail(parts))

\* SQLite LIKE: % matches any run, _ any one character, letters compare
\* case-insensitively; no ESCAPE clause is given by the queries
RECURSIVE Like(_, _)
Like(s, p) ==
  IF p = <<>> THEN s = <<>>
  ELSE IF Head(p) = "%"
       THEN Like(s, Tail(p)) \/ (s # <<>> /\ Like(Tail(s), p))
  ELSE IF Head(p) = "_"
       THEN s # <<>> /\ Like(Tail(s), Tail(p))
  ELSE s # <<>> /\ UpperChar(Head(s)) = UpperChar(Head(p))
         /\ Like(Tail(s), Tail(p))

\* [A-Z]{1,2}[0-9][A-Z0-9]? at the start of s: the lengths it can consume
OutwardLens(s) ==
  {n \in 2..4 : \E k \in {1, 2} :
       /\ n \in {k + 1, k + 2}
       /\ Len(s) >= n
       /\ \A i \in 1..k : s[i] \in UpperSet
       /\ s[k + 1] \in DigitSet
       /\ (n = k + 2 => s[k + 2] \in UpperSet \cup DigitSet)}

\* re.match(r"^[A-Z]{1,2}[0-9][A-Z0-9]? [0-9][A-Z]{2}$", s)
full_pc_pattern(s) ==
  \E n \in OutwardLens(s) :
    /\ Len(s) = n + 4
    /\ s[n + 1] = " "
    /\ s[n + 2] \in DigitSet
    /\ s[n + 3] \in UpperSet
    /\ s[n + 4] \in UpperSet

\* re.match(r"^[A-Z]{1,2}[0-9][A-Z0-9]?$", s)
dist_pc_pattern(s) == \E n \in OutwardLens(s) : Len(s) = n

(***************************************************************************)
(* The gazetteer: raw rows as pandas reads them with the header's column   *)
(* names.  ID, LOCAL_TYPE, COUNTY_UNITARY and COUNTRY are only compared or *)
(* passed through, so they are plain tokens, with "None" for a missing one.*)
(***************************************************************************)
NULL == <<>>

s_ab == <<"A", "b">>

s_abc == <<"A", "b", "c">>

s_xy == <<"X", "y">>

s_yy == <<"Y", "y">>

s_zz == <<"Z", "z">>

s_E1 == <<"E", "1">>

s_E9 == <<"E", "9">>

s_E1_2AB == <<"E", "1", " ", "2", "A", "B">>

RawRow(id, name, type, pd, pp, db) ==
  [ID |-> id, NAME1 |-> name, LOCAL_TYPE |-> type, POSTCODE_DISTRICT |-> pd,
   POPULATED_PLACE |-> pp, DISTRICT_BOROUGH |-> db, COUNTY_UNITARY |-> "Shire",
   COUNTRY |-> "England", GEOMETRY_X |-> "431000"]

\* NA80.csv: a road that is a proper prefix-extension of the next road's
\* name, an unrecognized type under the same name, a village without district
FileA ==
  [name |-> <<"N", "A", "8", "0", ".", "c", "s", "v">>,
   rows |-> << RawRow("osgb1", s_abc, "Named Road", s_E1, s_xy, NULL),
               RawRow("osgb2", s_ab, "City", s_E1, s_xy, NULL),
               RawRow("osgb3", s_ab, "Named Road", s_E1, s_xy, s_zz),
               RawRow("osgb4", s_xy, "Village", NULL, NULL, s_zz) >>]

\* HP40.csv: a second record named as osgb3, a hamlet named as its own
\* populated place inside a borough, a postcode record, a hamlet whose NAME1
\* field is empty
FileB ==
  [name |-> <<"H", "P", "4", "0", ".", "c", "s", "v">>,
   rows |-> << RawRow("osgb5", s_ab, "Hamlet", s_E9, NULL, NULL),
               RawRow("osgb6", s_yy, "Hamlet", s_E9, s_yy, s_zz),
               RawRow("osgb7", s_E1_2AB, "Postcode", s_E1, s_xy, s_zz),
               RawRow("osgb11", NULL, "Hamlet", s_E9, NULL, NULL) >>]

\* TQ20.csv: a well-formed village row, then a row with one field more
\* than the header file names
FileC ==
  [name |-> <<"T", "Q", "2", "0", ".", "c", "s", "v">>,
   rows |-> << RawRow("osgb9", s_yy, "Village", s_E9, s_yy, NULL),
               [ID |-> "osgb10", NAME1 |-> s_xy, LOCAL_TYPE |-> "Village",
                POSTCODE_DISTRICT |-> s_E9, POPULATED_PLACE |-> s_yy,
                DISTRICT_BOROUGH |-> NULL, COUNTY_UNITARY |-> "Shire",
                COUNTRY |-> "England", GEOMETRY_X |-> "431000",
                EXTRA |-> "1"] >>]

\* a copy of the header-schema file lying in the data directory
FileH ==
  [name |-> <<"O", "S", "_", "O", "p", "e", "n", "_", "N", "a", "m", "e", "s",
             "_", "H", "e", "a", "d", "e", "r", ".", "c", "s", "v">>,
   rows |-> << RawRow("ID", <<"N">>, "LOCAL_TYPE", NULL, NULL, NULL) >>]

\* an index left by an earlier build from an older extract, made by a
\* builder that kept cities; its last record has no ID (NULL, read as None)
StaleRows ==
  << [ID |-> "osgb0", NAME1 |-> s_ab, LOCAL_TYPE |-> "Village",
      POSTCODE_DISTRICT |-> s_E9, POPULATED_PLACE |-> s_yy,
      DISTRICT_BOROUGH |-> NULL, COUNTY_UNITARY |-> "Shire",
      COUNTRY |-> "England"],
     [ID |-> "osgb8", NAME1 |-> s_yy, LOCAL_TYPE |-> "City",
      POSTCODE_DISTRICT |-> s_E9, POPULATED_PLACE |-> NULL,
      DISTRICT_BOROUGH |-> NULL, COUNTY_UNITARY |-> "Shire",
      COUNTRY |-> "England"],
     [ID |-> "None", NAME1 |-> s_xy, LOCAL_TYPE |-> "Village",
      POSTCODE_DISTRICT |-> s_E9, POPULATED_PLACE |-> NULL,
      DISTRICT_BOROUGH |-> NULL, COUNTY_UNITARY |-> "Shire",
      COUNTRY |-> "England"] >>

(***************************************************************************)
(* initialize_database: the per-file filter and projection                 *)
(***************************************************************************)
\* a filter that also lets cities through
valid_types_wide == {"Postcode", "Named Road", "Village", "Hamlet", "City"}

valid_types == {"Postcode", "Named Road", "Village", "Hamlet"}

cols_to_keep(r) ==
  [ID |-> r.ID, NAME1 |-> r.NAME1, LOCAL_TYPE |-> r.LOCAL_TYPE,
   POSTCODE_DISTRICT |-> r.POSTCODE_DISTRICT,
   POPULATED_PLACE |-> r.POPULATED_PLACE,
   DISTRICT_BOROUGH |-> r.DISTRICT_BOROUGH,
   COUNTY_UNITARY |-> r.COUNTY_UNITARY, COUNTRY |-> r.COUNTRY]

RECURSIVE MapKeep(_)
MapKeep(rows) ==
  IF rows = <<>> THEN <<>>
  ELSE <<cols_to_keep(Head(rows))>> \o MapKeep(Tail(rows))

IsValidType(r) == r.LOCAL_TYPE \in valid_types

\* clean_df = df[df['LOCAL_TYPE'].isin(valid_types)][cols_to_keep]
\* a line with more fields than column_names has names
TooManyFields(r) == "EXTRA" \in DOMAIN r

\* pd.read_csv(file, names=column_names, header=None): on_bad_lines is left
\* at 'error', so a line after the first with more fields than the first
\* raises ParserError (a first line with more fields would make the
\* leading columns the index; no file here starts with one)
read_csv(file) ==
  [raised |-> \E i \in 2..Len(file.rows) : TooManyFields(file.rows[i]),
   rows |-> file.rows]

clean_df(file) == MapKeep(SelectSeq(read_csv(file).rows, IsValidType))

\* if "header" in file.lower(): continue
\* needle in s, for text
IsSubstring(needle, s) ==
  \E i \in 1..(Len(s) - Len(needle) + 1) :
    SubSeq(s, i, i + Len(needle) - 1) = needle

\* os.path.join(data_folder_path, name)
PathJoin(folder, name) == folder \o <<"/">> \o name

\* a test of the file's name alone
IsHeaderName(file) ==
  IsSubstring(<<"h", "e", "a", "d", "e", "r">>, Lower(file.name))

\* "header" in file.lower(), file being the path glob returned
IsHeaderPath(file) ==
  IsSubstring(<<"h", "e", "a", "d", "e", "r">>, Lower(file.path))

(***************************************************************************)
(* Inputs of validate: the text the caller passes and what the external    *)
(* parser (libpostal's parse_address) returns for it, an ordered list of   *)
(* (value, label) pairs with lowercased values.                            *)
(***************************************************************************)
Tok(v, l) == [value |-> v, label |-> l]

OptTok(v, l) == IF v = <<>> THEN <<>> ELSE <<Tok(v, l)>>

RECURSIVE JoinComma(_)
JoinComma(parts) ==
  IF parts = <<>> THEN <<>>
  ELSE IF Head(parts) = <<>> THEN JoinComma(Tail(parts))
  ELSE IF JoinComma(Tail(parts)) = <<>> THEN Head(parts)
  ELSE Head(parts) \o <<",", " ">> \o JoinComma(Tail(parts))

NonEmpty(t) == t # <<>>

Address(house, name, nameLabel, city, pc) ==
  [raw |-> JoinComma(<<JoinSp(SelectSeq(<<house, name>>, NonEmpty)), city, pc>>),
   parsed |-> OptTok(house, "house_number") \o OptTok(name, nameLabel)
              \o OptTok(city, "city") \o OptTok(pc, "postcode")]

\* a road, or a name the parser labels "house" (no geo label: the fallback
\* on the raw text decides the search term)
NameTokens ==
  { Tok(<<>>, "road"), Tok(<<"a", "b">>, "road"), Tok(<<"a", "_">>, "house") }

CityValues == { <<>>, <<"x", "y">>, <<"y", "y">> }

PostcodeValues ==
  { <<>>, <<"e", "1">>, <<"e", "1", " ", "2", "a", "b">>, <<"z", "z">>,
    <<"e", "9", " ", "2", "a", "b">> }

HouseValues == { <<"1", "2">> }

Inputs ==
  { Address(<<>>, n.value, n.label, c, pc) :
      n \in NameTokens, c \in CityValues, pc \in PostcodeValues }
  \cup { Address(h, <<"a", "b">>, "road", <<>>, pc) :
            h \in HouseValues, pc \in {<<>>, <<"e", "1">>} }
  \cup { [raw |-> <<" ">>, parsed |-> <<>>],
         [raw |-> <<"N", "o", "n", "e">>,
          parsed |-> <<Tok(<<"n", "o", "n", "e">>, "house")>>],
         [raw |-> <<"u", "n", "k", "n", "o", "w", "n", " ">>,
          parsed |-> <<Tok(<<"u", "n", "k", "n", "o", "w", "n">>, "house")>>],
         [raw |-> <<",", " ", "e", "1">>,
          parsed |-> <<Tok(<<"e", "1">>, "postcode")>>] }

(***************************************************************************)
(* AddressAgent.validate, step 1: the query derived from the parse         *)
(***************************************************************************)
geo_labels ==
  {"road", "suburb", "city", "neighborhood", "village", "hamlet",
   "state_district"}

RECURSIVE UpperValues(_)
UpperValues(toks) ==
  IF toks = <<>> THEN <<>>
  ELSE <<Upper(Head(toks).value)>> \o UpperValues(Tail(toks))

IsGeo(t) == t.label \in geo_labels

IsPostcode(t) == t.label = "postcode"

\* addr = {label: value.upper() ...}; addr.get(label): the last pair with
\* that label wins, None (the empty sequence here) when there is none
AddrGet(parsed, label) ==
  LET idx == {i \in 1..Len(parsed) : parsed[i].label = label}
  IN IF idx = {} THEN <<>>
     ELSE Upper(parsed[CHOOSE i \in idx : \A j \in idx : j <= i].value)

\* addr.get('city') or addr.get('suburb') or addr.get('state_district')
user_area_context(parsed) ==
  IF AddrGet(parsed, "city") # <<>> THEN AddrGet(parsed, "city")
  ELSE IF AddrGet(parsed, "suburb") # <<>> THEN AddrGet(parsed, "suburb")
  ELSE AddrGet(parsed, "state_district")

\* search_term with its fallbacks; user_input.split()[0] raises IndexError
\* when the text has no token
search_term(input) ==
  LET joined == Strip(JoinSp(UpperValues(SelectSeq(input.parsed, IsGeo))))
  IN IF joined # <<>> THEN [raised |-> FALSE, term |-> joined]
     ELSE IF Contains(input.raw, ",")
          THEN [raised |-> FALSE, term |-> Upper(Strip(BeforeComma(input.raw)))]
     ELSE IF SplitWs(input.raw) = <<>>
          THEN [raised |-> TRUE, term |-> <<>>]
     ELSE [raised |-> FALSE, term |-> Upper(Strip(SplitWs(input.raw)[1]))]

postcode(input) ==
  Strip(JoinSp(UpperValues(SelectSeq(input.parsed, IsPostcode))))

\* postcode.split()[0] if postcode else None
input_district(pc) == IF pc # <<>> THEN SplitWs(pc)[1] ELSE <<>>

(***************************************************************************)
(* Step 2: the two queries.  A NULL column makes upper(...) LIKE and = NULL,*)
(* which selects nothing.  Each query is a scan of the table in rowid       *)
(* order, which is insertion order.                                         *)
(***************************************************************************)
Tier1Rows(rows, term, district) ==
  {i \in 1..Len(rows) :
     /\ rows[i].NAME1 # NULL
     /\ Like(Upper(rows[i].NAME1), term \o <<"%">>)
     /\ rows[i].POSTCODE_DISTRICT # NULL
     /\ Like(Upper(rows[i].POSTCODE_DISTRICT), district \o <<"%">>)}

Tier2Rows(rows, term) ==
  {i \in 1..Len(rows) : rows[i].NAME1 # NULL /\ Upper(rows[i].NAME1) = term}

\* a cursor free to deliver any selected row
LimitOneAny(idx) == IF idx = {} THEN {0} ELSE idx

\* LIMIT 1 ... fetchone(): the rows the cursor can deliver, 0 for None
LimitOne(idx) ==
  IF idx = {} THEN {0} ELSE {CHOOSE i \in idx : \A j \in idx : i <= j}

\* a match step without the exact-name query when a district is given
db_match_tier1(term, district, m1, m2) ==
  IF term = <<>> THEN 0
  ELSE IF district # <<>> THEN m1
  ELSE m2

\* db_match of lines 80-91, given what each query delivers
db_match(term, district, m1, m2) ==
  IF term = <<>> THEN 0
  ELSE IF district # <<>> /\ m1 # 0 THEN m1
  ELSE m2

(***************************************************************************)
(* Steps 3-5: the heuristic engine and the profile                         *)
(***************************************************************************)
residential_types ==
  {"Postcode", "Named Road", "Hamlet", "Village", "Other Settlement"}

\* a classification that gives up on the kinds it does not list
classification_listed(row) ==
  IF row.LOCAL_TYPE \in residential_types THEN "RESIDENTIAL" ELSE "UNKNOWN"

\* a classification that takes every record for a residence
classification_residential(row) == "RESIDENTIAL"

classification_of(row) ==
  IF row.LOCAL_TYPE \in residential_types THEN "RESIDENTIAL" ELSE "BUSINESS"

\* a comparison that flags as soon as one of the two fields differs
area_mismatch_either(ctx, row) ==
  /\ ctx # <<>>
  /\ \E loc \in {Upper(row.POPULATED_PLACE), Upper(row.DISTRICT_BOROUGH)} :
        loc # <<>> /\ loc # ctx

\* not any(loc == user_area_context for loc in [db_city, db_borough] if loc)
area_mismatch(ctx, row) ==
  /\ ctx # <<>>
  /\ ~ \E loc \in {Upper(row.POPULATED_PLACE), Upper(row.DISTRICT_BOROUGH)} :
         loc # <<>> /\ loc = ctx

AreaRule(ctx, row) ==
  IF area_mismatch(ctx, row)
  THEN [flags |-> <<"GEOGRAPHIC_AREA_MISMATCH">>, score |-> 40]
  ELSE [flags |-> <<>>, score |-> 0]

\* a postcode rule that takes a district alone for a full postcode
PostcodeRuleLoose(pc, row) ==
  IF full_pc_pattern(pc) \/ dist_pc_pattern(pc)
  THEN [flags |-> <<>>, score |-> 0, confidence |-> "HIGH"]
  ELSE [flags |-> <<"MISSING_OR_INVALID_POSTCODE">>, score |-> 30,
        confidence |-> "LOW"]

\* AddressValidator_Agent, lines 123-132
PostcodeRuleAVA(pc, row) ==
  IF full_pc_pattern(pc)
  THEN [flags |-> <<>>, score |-> 0, confidence |-> "HIGH"]
  ELSE IF dist_pc_pattern(pc) \/ (pc = <<>> /\ row.POSTCODE_DISTRICT # NULL)
  THEN [flags |-> <<"PARTIAL_POSTCODE_DISTRICT">>, score |-> 10,
        confidence |-> "MEDIUM"]
  ELSE [flags |-> <<"MISSING_OR_INVALID_POSTCODE">>, score |-> 30,
        confidence |-> "LOW"]

\* a postcode rule that never looks at the record's district
PostcodeRuleNoRecord(pc, row) ==
  IF full_pc_pattern(pc)
  THEN [flags |-> <<>>, score |-> 0, confidence |-> "HIGH"]
  ELSE IF input_district(pc) # <<>>
  THEN [flags |-> <<"PARTIAL_POSTCODE_DISTRICT">>, score |-> 10,
        confidence |-> "MEDIUM"]
  ELSE [flags |-> <<"MISSING_OR_INVALID_POSTCODE">>, score |-> 30,
        confidence |-> "LOW"]

\* LBG_IPI_DQ_CHECKS and LBG_Integration_Orchestrator, lines 115-123: the
\* second test is the truth of input_district, not the district pattern
PostcodeRuleDQ(pc, row) ==
  IF full_pc_pattern(pc)
  THEN [flags |-> <<>>, score |-> 0, confidence |-> "HIGH"]
  ELSE IF input_district(pc) # <<>>
          \/ (pc = <<>> /\ row.POSTCODE_DISTRICT # NULL)
  THEN [flags |-> <<"PARTIAL_POSTCODE_DISTRICT">>, score |-> 10,
        confidence |-> "MEDIUM"]
  ELSE [flags |-> <<"MISSING_OR_INVALID_POSTCODE">>, score |-> 30,
        confidence |-> "LOW"]

\* a no-match branch that scores as a missing postcode does
NotFoundRuleLow == [flags |-> <<"ADDRESS_NOT_IN_DATABASE">>, score |-> 30]

\* the else branch: risk_flags.append("ADDRESS_NOT_IN_DATABASE"),
\* risk_score = 90
NotFoundRule == [flags |-> <<"ADDRESS_NOT_IN_DATABASE">>, score |-> 90]

\* the score without the final min
cap_none(x) == x

\* min(x, 100)
cap(x) == IF x < 100 THEN x ELSE 100

\* str() of a column value inside the f-string: None prints as "None"
Str(v) == IF v = NULL THEN <<"N", "o", "n", "e">> ELSE v

s_UNKNOWN == <<"U", "N", "K", "N", "O", "W", "N">>

s_UNKNOWN_ROAD == s_UNKNOWN \o <<" ", "R", "O", "A", "D">>

s_UNKNOWN_POSTCODE ==
  s_UNKNOWN \o <<" ", "P", "O", "S", "T", "C", "O", "D", "E">>

\* f"{house_no} {final_road}, {final_pc}".strip(", ").upper()
full_std_addr(house_no, final_road, final_pc) ==
  Upper(StripChars(house_no \o <<" ">> \o final_road \o <<",", " ">> \o final_pc,
                   {",", " "}))

house_no(parsed) == Strip(AddrGet(parsed, "house_number"))

\* AddressValidator_Agent, lines 140-147
StdAddrAVA(parsed, term, pc, matched, row) ==
  IF matched
  THEN full_std_addr(house_no(parsed), Str(row.NAME1),
                     IF pc # <<>> THEN pc ELSE Str(row.POSTCODE_DISTRICT))
  ELSE full_std_addr(house_no(parsed),
                     IF term # <<>> THEN term ELSE s_UNKNOWN_ROAD,
                     IF pc # <<>> THEN pc ELSE s_UNKNOWN_POSTCODE)

\* LBG_IPI_DQ_CHECKS, lines 129-132
StdAddrDQ(parsed, term, pc, matched, row) ==
  full_std_addr(house_no(parsed),
                IF matched THEN Str(row.NAME1) ELSE term,
                IF pc # <<>> THEN pc
                ELSE IF matched THEN Str(row.POSTCODE_DISTRICT)
                ELSE s_UNKNOWN)

NoRow ==
  [ID |-> "None", NAME1 |-> NULL, LOCAL_TYPE |-> "None",
   POSTCODE_DISTRICT |-> NULL, POPULATED_PLACE |-> NULL,
   DISTRICT_BOROUGH |-> NULL, COUNTY_UNITARY |-> "None", COUNTRY |-> "None"]

\* AddressValidator_Agent: CustomerAddressProfile of lines 99-164 (the
\* schema has no is_duplicate field; it is FALSE here)
ProfileAVA(input, term, rows, m) ==
  LET matched == m # 0
      row == IF matched THEN rows[m] ELSE NoRow
      pc == postcode(input)
      area == AreaRule(user_area_context(input.parsed), row)
      tier == PostcodeRuleAVA(pc, row)
  IN [is_valid |-> matched,
      standardized_address |-> StdAddrAVA(input.parsed, term, pc, matched, row),
      classification |-> IF matched THEN classification_of(row) ELSE "UNKNOWN",
      is_duplicate |-> FALSE,
      populated_place |-> row.POPULATED_PLACE,
      district_borough |-> row.DISTRICT_BOROUGH,
      county |-> row.COUNTY_UNITARY,
      risk_score |-> cap(IF matched THEN area.score + tier.score
                         ELSE NotFoundRule.score),
      risk_flags |-> IF matched THEN area.flags \o tier.flags
                     ELSE NotFoundRule.flags,
      confidence_level |-> IF matched THEN tier.confidence ELSE "LOW",
      provider_metadata |->
        [os_id |-> row.ID, local_type |-> row.LOCAL_TYPE,
         country |-> IF matched THEN row.COUNTRY ELSE "UK"]]

\* a duplicate rule that adds its 30 points and no flag
DuplicateRuleSilent(is_duplicate, flags, score) ==
  IF is_duplicate
  THEN [flags |-> flags, score |-> cap(score + 30)]
  ELSE [flags |-> flags, score |-> score]

\* a duplicate rule that puts its flag in front of the others
DuplicateRuleFirst(is_duplicate, flags, score) ==
  IF is_duplicate
  THEN [flags |-> <<"DUPLICATE ADDRESSES TRACKED">> \o flags,
        score |-> cap(score + 30)]
  ELSE [flags |-> flags, score |-> score]

\* if is_duplicate: append the flag, risk_score = min(risk_score + 30, 100)
DuplicateRule(is_duplicate, flags, score) ==
  IF is_duplicate
  THEN [flags |-> flags \o <<"DUPLICATE ADDRESSES TRACKED">>,
        score |-> cap(score + 30)]
  ELSE [flags |-> flags, score |-> score]

\* LBG_IPI_DQ_CHECKS / LBG_Integration_Orchestrator: CustomerAddressDQ of
\* lines 96-155; is_duplicate is the draw of _is_duplicate
ProfileDQ(input, term, rows, m, is_duplicate) ==
  LET matched == m # 0
      row == IF matched THEN rows[m] ELSE NoRow
      pc == postcode(input)
      area == AreaRule(user_area_context(input.parsed), row)
      tier == PostcodeRuleDQ(pc, row)
      dup == DuplicateRule(is_duplicate,
               IF matched THEN area.flags \o tier.flags
               ELSE NotFoundRule.flags,
               IF matched THEN area.score + tier.score
               ELSE NotFoundRule.score)
  IN [is_valid |-> matched,
      standardized_address |-> StdAddrDQ(input.parsed, term, pc, matched, row),
      classification |-> IF matched THEN classification_of(row) ELSE "UNKNOWN",
      is_duplicate |-> is_duplicate,
      populated_place |-> row.POPULATED_PLACE,
      district_borough |-> row.DISTRICT_BOROUGH,
      county |-> row.COUNTY_UNITARY,
      risk_score |-> cap(dup.score),
      risk_flags |-> dup.flags,
      confidence_level |-> IF matched THEN tier.confidence ELSE "LOW",
      provider_metadata |->
        [os_id |-> row.ID,
         local_type |-> IF matched THEN row.LOCAL_TYPE ELSE "N/A",
         country |-> IF matched THEN row.COUNTRY ELSE "UK"]]

Variants == {"AVA", "DQ", "ORCH"}

Profile(variant, input, term, rows, m, is_duplicate) ==
  IF variant = "AVA" THEN ProfileAVA(input, term, rows, m)
  ELSE ProfileDQ(input, term, rows, m, is_duplicate)

\* schemas.address_not_found_response
address_not_found_response(raw_input) ==
  [is_valid |-> FALSE,
   standardized_address |-> raw_input \o <<",", " ">> \o s_UNKNOWN,
   classification |-> "UNKNOWN",
   is_duplicate |-> FALSE,
   populated_place |-> NULL,
   district_borough |-> NULL,
   county |-> "None",
   risk_score |-> 100,
   risk_flags |-> <<"ADDRESS COULD NOT BE PARSED">>,
   confidence_level |-> "LOW",
   provider_metadata |->
     [os_id |-> "None", local_type |-> "N/A", country |-> "UK"]]

(***************************************************************************)
(* State                                                                   *)
(***************************************************************************)
VARIABLES
  header_file,  \* Data/Doc/OS_Open_Names_Header.csv exists
  data_dir,     \* Data/csv: [exists, files]
  db0,          \* the database file as it was before the first step
  db,           \* Data/uk_validation.db: [file, table, rows, idx]
  pc,           \* per caller: where it stands
  origin,       \* per caller: "script", "agent" or "unify"
  todo,         \* per caller: csv_files still to ingest, in glob's order
  overlap,      \* per caller: another build ran during this caller's build
  builds,       \* initialize_database runs started so far
  lastBuild,    \* the build that finished most recently
  last          \* the call that finished in the step just taken

vars ==
  <<header_file, data_dir, db0, db, pc, origin, todo, overlap, builds,
    lastBuild, last>>

\* two callers: a builder and a reader, or two constructors
Procs == {1, 2}

\* initialize_database runs considered in one behaviour
MaxBuilds == 2

BuildPcs == {"start", "drop", "append", "index"}

NoDb == [file |-> FALSE, table |-> FALSE, rows |-> <<>>, idx |-> FALSE]

StaleDb == [file |-> TRUE, table |-> TRUE, rows |-> StaleRows, idx |-> TRUE]

NoBuild ==
  [status |-> "none", cause |-> "", isolated |-> FALSE, rebuilt |-> FALSE,
   bag |-> <<>>, prev |-> <<>>]

NoCall ==
  [kind |-> "none", error |-> "", via |-> "", variant |-> "",
   input |-> [raw |-> <<>>, parsed |-> <<>>],
   term |-> <<>>, m |-> 0, repeat |-> FALSE, profile |-> <<>>]

\* the (name1, kind, postcode_district) multiset of a table
Key(r) == <<r.NAME1, r.LOCAL_TYPE, r.POSTCODE_DISTRICT>>

KeyBag(rows) ==
  [k \in {Key(rows[i]) : i \in 1..Len(rows)} |->
     Cardinality({i \in 1..Len(rows) : Key(rows[i]) = k})]

\* glob.glob(os.path.join(data_folder_path, "*.csv")): the files of the
\* directory in an order the file system chooses; [] for a missing directory
RECURSIVE Orders(_)
Orders(files) ==
  IF files = {} THEN {<<>>}
  ELSE UNION {{<<f>> \o rest : rest \in Orders(files \ {f})} : f \in files}

\* glob.glob(os.path.join(data_folder_path, "*.csv")): the paths of the
\* files, in an order the file system chooses
glob(dir) ==
  IF dir.exists
  THEN Orders({[name |-> f.name, rows |-> f.rows,
                path |-> PathJoin(dir.path, f.name)] : f \in dir.files})
  ELSE {<<>>}

Building(p) == pc[p] \in BuildPcs

OthersBuilding(p) == \E q \in Procs \ {p} : Building(q)

(***************************************************************************)
(* How a call ends                                                         *)
(***************************************************************************)
RaisedCall(err, variant, input) ==
  [NoCall EXCEPT !.kind = "raised", !.error = err, !.via = "validate",
                 !.variant = variant, !.input = input]

\* a wrapper that lets the exception through
FallbackCallRaises(err, variant, input) ==
  [NoCall EXCEPT !.kind = "raised", !.error = err, !.via = "fallback",
                 !.variant = variant, !.input = input]

\* validate_and_unify's except branch, with the exception's name in err,
\* and its branch for no address, with no name
FallbackCall(err, variant, input) ==
  [NoCall EXCEPT !.kind = "returned", !.error = err, !.via = "fallback",
                 !.variant = variant, !.input = input,
                 !.profile = address_not_found_response(
                               IF err = ""
                               THEN <<"N", "o", " ", "a", "d", "d", "r", "e",
                                      "s", "s", " ", "e", "x", "t", "r", "a",
                                      "c", "t", "e", "d">>
                               ELSE input.raw)]

\* not address_to_verify or str(...).strip().lower() in ["none","unknown",""]
NoAddress(input) ==
  Lower(Strip(input.raw)) \in
    { <<>>, <<"n", "o", "n", "e">>, <<"u", "n", "k", "n", "o", "w", "n">> }

\* an exception leaving initialize_database inside AddressAgent.__init__, or
\* leaving the script: the script ends, search_address fails,
\* validate_and_unify answers with the fallback profile
Abort(p, err, I) ==
  /\ pc' = [pc EXCEPT ![p] = "idle"]
  /\ origin' = [origin EXCEPT ![p] = "script"]
  /\ overlap' = [overlap EXCEPT ![p] = FALSE]
  /\ todo' = [todo EXCEPT ![p] = <<>>]
  /\ IF origin[p] = "script" THEN last' = NoCall
     ELSE IF origin[p] = "agent"
     THEN last' = [RaisedCall(err, "", [raw |-> <<>>, parsed |-> <<>>])
                     EXCEPT !.via = "ctor"]
     ELSE \E v \in {"DQ", "ORCH"} : \E input \in {i \in I : ~NoAddress(i)} :
            last' = FallbackCall(err, v, input)

FinishBuild(p, status, cause) ==
  lastBuild' =
    [status |-> status, cause |-> cause, isolated |-> ~overlap[p],
     rebuilt |-> /\ status = "ok" /\ ~overlap[p]
                 /\ lastBuild.status = "ok" /\ lastBuild.isolated,
     bag |-> IF status = "ok" THEN KeyBag(db'.rows) ELSE <<>>,
     prev |-> IF status = "ok" /\ lastBuild.status = "ok" THEN lastBuild.bag
              ELSE <<>>]

EnterBuild(p) ==
  /\ builds < MaxBuilds
  /\ builds' = builds + 1
  /\ pc' = [pc EXCEPT ![p] = "start"]
  /\ overlap' = [q \in Procs |->
                   IF q = p THEN OthersBuilding(p)
                   ELSE IF Building(q) THEN TRUE ELSE overlap[q]]

(***************************************************************************)
(* Callers                                                                 *)
(***************************************************************************)
\* createAddressDB.py run as a script: initialize_database on the paths
ScriptStart(p) ==
  /\ pc[p] = "idle"
  /\ origin' = [origin EXCEPT ![p] = "script"]
  /\ EnterBuild(p)
  /\ last' = NoCall
  /\ UNCHANGED <<header_file, data_dir, db0, db, todo, lastBuild>>

\* search_address / verify_address_logic / the validator's own main:
\* AddressAgent(db_path=...) is constructed
AgentStart(p) ==
  /\ pc[p] = "idle"
  /\ origin' = [origin EXCEPT ![p] = "agent"]
  /\ pc' = [pc EXCEPT ![p] = "ctor"]
  /\ last' = NoCall
  /\ UNCHANGED <<header_file, data_dir, db0, db, todo, overlap, builds,
                 lastBuild>>

\* validate_and_unify: no address gives the fallback profile at once,
\* otherwise AddressAgent is constructed inside the try
UnifyStart(p, I) ==
  /\ pc[p] = "idle"
  /\ \E none \in BOOLEAN :
       IF none
       THEN /\ \E v \in {"DQ", "ORCH"} : \E input \in {i \in I : NoAddress(i)} :
                 last' = FallbackCall("", v, input)
            /\ UNCHANGED <<pc, origin>>
       ELSE /\ last' = NoCall
            /\ origin' = [origin EXCEPT ![p] = "unify"]
            /\ pc' = [pc EXCEPT ![p] = "ctor"]
  /\ UNCHANGED <<header_file, data_dir, db0, db, todo, overlap, builds,
                 lastBuild>>

\* AddressAgent.__init__: if not self.db_path.exists(): initialize_database
CtorCheck(p) ==
  /\ pc[p] = "ctor"
  /\ IF db.file
     THEN /\ pc' = [pc EXCEPT ![p] = "ready"]
          /\ UNCHANGED <<overlap, builds>>
     ELSE EnterBuild(p)
  /\ last' = NoCall
  /\ UNCHANGED <<header_file, data_dir, db0, db, origin, todo, lastBuild>>

(***************************************************************************)
(* initialize_database, statement by statement; every statement that       *)
(* writes is committed on its own (DDL in autocommit, to_sql per file)     *)
(***************************************************************************)
\* a connection that truncates the database file
connect_truncate(d) ==
  [file |-> TRUE, table |-> FALSE, rows |-> <<>>, idx |-> FALSE]

\* sqlite3.connect(db_path): creates the file when there is none and
\* leaves an existing one as it is
connect(d) == [d EXCEPT !.file = TRUE]

\* pd.read_csv(header_path) raises when the file is missing; the database
\* is opened after it
BuildStart(p, I) ==
  /\ pc[p] = "start"
  /\ IF ~header_file
     THEN /\ db' = db
          /\ FinishBuild(p, "failed", "header")
          /\ Abort(p, "FileNotFoundError", I)
     ELSE /\ db' = connect(db)
          /\ pc' = [pc EXCEPT ![p] = "drop"]
          /\ last' = NoCall
          /\ UNCHANGED <<origin, todo, overlap, lastBuild>>
  /\ UNCHANGED <<header_file, data_dir, db0, builds>>

\* a build that drops the name index and keeps the table
drop_index_only(d) == [d EXCEPT !.idx = FALSE]

\* conn.execute("DROP TABLE IF EXISTS os_data"): its index goes with it
drop_table(d) == [d EXCEPT !.table = FALSE, !.rows = <<>>, !.idx = FALSE]

\* the DROP TABLE, then glob
BuildDrop(p) ==
  /\ pc[p] = "drop"
  /\ db' = drop_table(db)
  /\ \E files \in glob(data_dir) : todo' = [todo EXCEPT ![p] = files]
  /\ pc' = [pc EXCEPT ![p] = "append"]
  /\ last' = NoCall
  /\ UNCHANGED <<header_file, data_dir, db0, origin, overlap, builds,
                 lastBuild>>

\* one turn of the loop over csv_files: a path with "header" is skipped,
\* else the filtered rows are appended (to_sql creates the table if needed)
BuildAppend(p, I) ==
  /\ pc[p] = "append"
  /\ IF todo[p] = <<>>
     THEN /\ pc' = [pc EXCEPT ![p] = "index"]
          /\ last' = NoCall
          /\ UNCHANGED <<db, todo, origin, overlap, lastBuild>>
     ELSE IF ~IsHeaderPath(Head(todo[p])) /\ read_csv(Head(todo[p])).raised
     THEN /\ db' = db
          /\ FinishBuild(p, "failed", "parse")
          /\ Abort(p, "ParserError", I)
     ELSE /\ db' = IF IsHeaderPath(Head(todo[p])) THEN db
                   ELSE [db EXCEPT !.table = TRUE,
                                   !.rows = @ \o clean_df(Head(todo[p]))]
          /\ todo' = [todo EXCEPT ![p] = Tail(@)]
          /\ pc' = pc
          /\ last' = NoCall
          /\ UNCHANGED <<origin, overlap, lastBuild>>
  /\ UNCHANGED <<header_file, data_dir, db0, builds>>

BuildDone(p) ==
  /\ overlap' = [overlap EXCEPT ![p] = FALSE]
  /\ pc' = [pc EXCEPT ![p] = IF origin[p] = "script" THEN "idle" ELSE "ready"]
  /\ last' = NoCall
  /\ UNCHANGED <<origin, todo>>

\* CREATE INDEX idx_name ON os_data (NAME1) raises OperationalError when the
\* table is not there or the index already is; then close and return
BuildIndex(p, I) ==
  /\ pc[p] = "index"
  /\ IF ~db.table \/ db.idx
     THEN /\ db' = db
          /\ FinishBuild(p, "failed",
                         IF ~data_dir.exists THEN "datadir"
                         ELSE IF ~db.table THEN "no_table" ELSE "index_exists")
          /\ Abort(p, "OperationalError", I)
     ELSE /\ db' = [db EXCEPT !.idx = TRUE]
          /\ FinishBuild(p, "ok", "")
          /\ BuildDone(p)
  /\ UNCHANGED <<header_file, data_dir, db0, builds>>

(***************************************************************************)
(* AddressAgent.validate                                                   *)
(***************************************************************************)
ReturnedCall(variant, input, term, m, is_duplicate) ==
  [kind |-> "returned", error |-> "", via |-> "validate", variant |-> variant,
   input |-> input, term |-> term, m |-> m,
   repeat |-> /\ last.kind = "returned" /\ last.via = "validate"
              /\ last.variant = variant /\ last.input = input,
   profile |-> Profile(variant, input, term, db.rows, m, is_duplicate)]

\* an exception leaving validate: search_address fails (the agent is gone),
\* validate_and_unify answers with the fallback profile
ValidateRaises(p, err, variant, input) ==
  /\ pc' = [pc EXCEPT ![p] = "idle"]
  /\ origin' = [origin EXCEPT ![p] = "script"]
  /\ last' = IF origin[p] = "unify"
             THEN FallbackCall(err, variant, input)
             ELSE RaisedCall(err, variant, input)

Validate(p, I) ==
  /\ pc[p] = "ready"
  /\ \E variant \in IF origin[p] = "unify" THEN {"DQ", "ORCH"} ELSE Variants :
     \E input \in IF origin[p] = "unify" THEN {i \in I : ~NoAddress(i)} ELSE I :
     \E is_duplicate \in IF variant = "AVA" THEN {FALSE} ELSE BOOLEAN :
       LET st == search_term(input)
           district == input_district(postcode(input))
       IN IF st.raised
          THEN /\ ValidateRaises(p, "IndexError", variant, input)
               /\ db' = db
          ELSE IF st.term # <<>> /\ ~db.table
          THEN /\ ValidateRaises(p, "OperationalError", variant, input)
               /\ db' = connect(db)
          ELSE \E m1 \in LimitOne(Tier1Rows(db.rows, st.term, district)) :
               \E m2 \in LimitOne(Tier2Rows(db.rows, st.term)) :
                 /\ last' = ReturnedCall(variant, input, st.term,
                              db_match(st.term, district, m1, m2), is_duplicate)
                 /\ pc' = [pc EXCEPT ![p] =
                             IF origin[p] = "unify" THEN "idle" ELSE "ready"]
                 /\ origin' = [origin EXCEPT ![p] =
                                 IF origin[p] = "unify" THEN "script" ELSE @]
                 /\ db' = connect(db)
  /\ UNCHANGED <<header_file, data_dir, db0, todo, overlap, builds,
                 lastBuild>>

\* the caller drops its agent
Release(p) ==
  /\ pc[p] = "ready"
  /\ origin[p] = "agent"
  /\ pc' = [pc EXCEPT ![p] = "idle"]
  /\ origin' = [origin EXCEPT ![p] = "script"]
  /\ last' = NoCall
  /\ UNCHANGED <<header_file, data_dir, db0, db, todo, overlap, builds,
                 lastBuild>>

(***************************************************************************)
(* The system: callers, scripts and builds interleaved                     *)
(***************************************************************************)
\* the addresses the callers of the interleaved system pass
SystemInputs ==
  { Address(<<>>, <<>>, "road", <<>>, <<>>),
    Address(<<>>, <<"a", "b">>, "road", <<>>, <<"e", "1", " ", "2", "a", "b">>) }

\* base_dir / "Data/csv"
DataCsv == <<"D", "a", "t", "a", "/", "c", "s", "v">>

\* the installations considered: complete, with the header file copied
\* into the data directory, with a file that holds a malformed row,
\* without data directory, without header file
Environments ==
  { [header_file |-> TRUE,
     data_dir |-> [exists |-> TRUE, path |-> DataCsv, files |-> {FileA, FileB}]],
    [header_file |-> TRUE,
     data_dir |-> [exists |-> TRUE, path |-> DataCsv, files |-> {FileA, FileH}]],
    [header_file |-> TRUE,
     data_dir |-> [exists |-> TRUE, path |-> DataCsv, files |-> {FileA, FileC}]],
    [header_file |-> TRUE, data_dir |-> [exists |-> FALSE, path |-> DataCsv, files |-> {}]],
    [header_file |-> FALSE,
     data_dir |-> [exists |-> TRUE, path |-> DataCsv, files |-> {FileA, FileB}]] }

Init ==
  /\ \E e \in Environments :
       header_file = e.header_file /\ data_dir = e.data_dir
  /\ db \in {NoDb, StaleDb}
  /\ db0 = db
  /\ pc = [p \in Procs |-> "idle"]
  /\ origin = [p \in Procs |-> "script"]
  /\ todo = [p \in Procs |-> <<>>]
  /\ overlap = [p \in Procs |-> FALSE]
  /\ builds = 0
  /\ lastBuild = NoBuild
  /\ last = NoCall

Next ==
  \E p \in Procs :
    \/ ScriptStart(p)
    \/ AgentStart(p)
    \/ UnifyStart(p, SystemInputs)
    \/ CtorCheck(p)
    \/ BuildStart(p, SystemInputs)
    \/ BuildDrop(p)
    \/ BuildAppend(p, SystemInputs)
    \/ BuildIndex(p, SystemInputs)
    \/ Validate(p, SystemInputs)
    \/ Release(p)

Spec == Init /\ [][Next]_vars

(***************************************************************************)
(* The validator alone: one caller at a time over a finished index, as the *)
(* loop of AddressValidator.py's main, search_address and                  *)
(* validate_and_unify use it                                               *)
(***************************************************************************)
RECURSIVE Ingest(_)
Ingest(files) ==
  IF files = <<>> THEN <<>>
  ELSE (IF IsHeaderPath(Head(files)) THEN <<>> ELSE clean_df(Head(files)))
       \o Ingest(Tail(files))

\* what a build that runs alone over csv_files leaves
BuiltDb(files) ==
  [file |-> TRUE, table |-> TRUE, rows |-> Ingest(files), idx |-> TRUE]

InitValidate ==
  /\ header_file = TRUE
  /\ data_dir = [exists |-> TRUE, path |-> DataCsv, files |-> {FileA, FileB}]
  /\ db \in {BuiltDb(o) : o \in glob(data_dir)} \cup {StaleDb}
  /\ db0 = db
  /\ pc = [p \in Procs |-> "idle"]
  /\ origin = [p \in Procs |-> "script"]
  /\ todo = [p \in Procs |-> <<>>]
  /\ overlap = [p \in Procs |-> FALSE]
  /\ builds = 0
  /\ lastBuild = NoBuild
  /\ last = NoCall

NextValidate ==
  \/ AgentStart(1)
  \/ UnifyStart(1, Inputs)
  \/ CtorCheck(1)
  \/ Validate(1, Inputs)
  \/ Release(1)

SpecValidate == InitValidate /\ [][NextValidate]_vars

(***************************************************************************)
(* Properties                                                              *)
(***************************************************************************)
\* the call that just ended is a profile validate itself built
Validated == last.kind = "returned" /\ last.via = "validate"

\* the call that just ended found no record
Unmatched == Validated /\ last.m = 0

\* C1: every returned profile, in every variant of validate, with or
\* without the duplicate rule, and from address_not_found_response, has an
\* integer risk_score between 0 and 100
C1_RiskScoreInRange ==
  last.kind = "returned" =>
    /\ last.profile.risk_score \in Int
    /\ 0 <= last.profile.risk_score
    /\ last.profile.risk_score <= 100

\* an unmatched query flagged as duplicate: 90 + 30 meets the limit
C1_Witness ==
  /\ Unmatched
  /\ last.profile.is_duplicate
  /\ last.profile.risk_score = 100

\* C2 as stated: an unmatched query gives is_valid false, risk_score 90,
\* UNKNOWN, LOW and exactly the flag list [ADDRESS_NOT_IN_DATABASE]
C2_AsStated ==
  Unmatched =>
    /\ ~last.profile.is_valid
    /\ last.profile.risk_score = 90
    /\ last.profile.classification = "UNKNOWN"
    /\ last.profile.confidence_level = "LOW"
    /\ last.profile.risk_flags = <<"ADDRESS_NOT_IN_DATABASE">>

\* C2: an unmatched query gives is_valid false, UNKNOWN and LOW; its
\* risk_score is 90 and its flags are [ADDRESS_NOT_IN_DATABASE] when
\* is_duplicate is false, 100 and [ADDRESS_NOT_IN_DATABASE, DUPLICATE
\* ADDRESSES TRACKED] when is_duplicate is true
C2_NoMatchProfile ==
  Unmatched =>
    /\ ~last.profile.is_valid
    /\ last.profile.classification = "UNKNOWN"
    /\ last.profile.confidence_level = "LOW"
    /\ IF last.profile.is_duplicate
       THEN /\ last.profile.risk_score = 100
            /\ last.profile.risk_flags =
                 <<"ADDRESS_NOT_IN_DATABASE", "DUPLICATE ADDRESSES TRACKED">>
       ELSE /\ last.profile.risk_score = 90
            /\ last.profile.risk_flags = <<"ADDRESS_NOT_IN_DATABASE">>

\* a query with a search term that no record answers, in a variant without
\* the duplicate draw set
C2_Witness ==
  /\ Unmatched
  /\ last.term # <<>>
  /\ ~last.profile.is_duplicate
  /\ last.profile.risk_score = 90

\* outward code, one space, inward code: the text splits at its only space
\* into a district and a digit followed by two letters
FullUkPostcode(s) ==
  \E n \in 1..Len(s) :
    /\ s[n] = " "
    /\ dist_pc_pattern(SubSeq(s, 1, n - 1))
    /\ Len(s) = n + 3
    /\ s[n + 1] \in DigitSet
    /\ s[n + 2] \in UpperSet
    /\ s[n + 3] \in UpperSet

\* C3: confidence_level is HIGH only when a record was matched and the
\* query postcode is a full postcode; an unmatched query, a district alone
\* or no postcode never gives HIGH
C3_HighNeedsFullPostcode ==
  (last.kind = "returned" /\ last.profile.confidence_level = "HIGH") =>
    /\ Validated
    /\ last.m # 0
    /\ last.profile.is_valid
    /\ FullUkPostcode(postcode(last.input))

\* a matched query whose postcode is a district alone, and which is not HIGH
C3_Witness ==
  /\ Validated
  /\ last.m # 0
  /\ dist_pc_pattern(postcode(last.input))
  /\ last.profile.confidence_level = "MEDIUM"

\* plain prefix test, the reading "name1 starts with search_term"
StartsWith(s, p) == Len(p) <= Len(s) /\ SubSeq(s, 1, Len(p)) = p

\* the first record in index order whose name starts with the term and
\* whose district starts with the query district, else the first whose
\* name equals the term, else none
PrefixRows(rows, term, district) ==
  {i \in 1..Len(rows) :
     /\ rows[i].NAME1 # NULL
     /\ StartsWith(Upper(rows[i].NAME1), term)
     /\ rows[i].POSTCODE_DISTRICT # NULL
     /\ StartsWith(Upper(rows[i].POSTCODE_DISTRICT), district)}

ExactRows(rows, term) ==
  {i \in 1..Len(rows) : rows[i].NAME1 # NULL /\ Upper(rows[i].NAME1) = term}

First(idx) == IF idx = {} THEN 0 ELSE CHOOSE i \in idx : \A j \in idx : i <= j

TwoTierMatch(rows, term, district) ==
  IF term = <<>> THEN 0
  ELSE IF district # <<>> /\ PrefixRows(rows, term, district) # {}
  THEN First(PrefixRows(rows, term, district))
  ELSE First(ExactRows(rows, term))

\* C4: the match step returns the tier-1 record (first in index order with
\* name prefix and district prefix) when term and district are non-empty
\* and one exists, otherwise the first record with exactly that name,
\* otherwise none
C4_TwoTierMatch ==
  Validated =>
    last.m = TwoTierMatch(db.rows, last.term,
                          input_district(postcode(last.input)))

\* the header file and the data directory are in place
SourcesPresent == header_file /\ data_dir.exists

\* the index a query may see during a rebuild: the one before it or a
\* complete new one
CompleteTables ==
  {<<db0.table, db0.rows>>}
  \cup {<<TRUE, BuiltDb(o).rows>> : o \in glob(data_dir)}

\* the call that just ended ran a query on the table
Queried ==
  /\ last.via = "validate"
  /\ \/ last.kind = "returned" /\ last.term # <<>>
     \/ last.kind = "raised" /\ last.error = "OperationalError"

\* C5: a validate query that runs while initialize_database is rebuilding
\* sees the complete previous index or the complete new one
C5_NoPartialIndex ==
  (/\ SourcesPresent
   /\ Queried
   /\ \E q \in Procs : pc[q] \in {"drop", "append", "index"}) =>
    <<db.table, db.rows>> \in CompleteTables

\* C6: a build that fails for a missing header file or a missing data
\* directory leaves the table and its rows as they were before the build
C6_FailedBuildKeepsIndex ==
  (/\ lastBuild.status = "failed"
   /\ lastBuild.cause \in {"header", "datadir"}
   /\ lastBuild.isolated
   /\ builds = 1) => <<db.table, db.rows>> = <<db0.table, db0.rows>>

\* C7: validate on an empty or whitespace-only address does not raise and
\* returns the no-match profile
C7_EmptyAddressNoMatch ==
  (/\ last.via = "validate"
   /\ Strip(last.input.raw) = <<>>
   /\ last.variant # "") =>
    /\ last.kind = "returned"
    /\ ~last.profile.is_valid
    /\ last.profile.risk_flags[1] = "ADDRESS_NOT_IN_DATABASE"

\* callers building inside AddressAgent.__init__
CtorBuilders == {p \in Procs : Building(p) /\ origin[p] # "script"}

\* C8: with no index file at the start and no script running, at most one
\* caller builds, and no caller is ready to query while a build runs
C8_SingleBuildInFlight ==
  (/\ SourcesPresent
   /\ db0 = NoDb
   /\ \A p \in Procs : Building(p) => origin[p] # "script") =>
    /\ Cardinality(CtorBuilders) <= 1
    /\ \A p \in Procs : pc[p] = "ready" => CtorBuilders = {}

IsNotDuplicateFlag(f) == f # "DUPLICATE ADDRESSES TRACKED"

\* two profiles equal in every field, is_duplicate and the flag and score
\* it adds aside
SameAside(a, b) ==
  /\ a.is_valid = b.is_valid
  /\ a.standardized_address = b.standardized_address
  /\ a.classification = b.classification
  /\ a.populated_place = b.populated_place
  /\ a.district_borough = b.district_borough
  /\ a.county = b.county
  /\ a.confidence_level = b.confidence_level
  /\ a.provider_metadata = b.provider_metadata
  /\ SelectSeq(a.risk_flags, IsNotDuplicateFlag)
       = SelectSeq(b.risk_flags, IsNotDuplicateFlag)
  /\ (a.is_duplicate = b.is_duplicate =>
        a.risk_score = b.risk_score /\ a.risk_flags = b.risk_flags)
  /\ (a.is_duplicate /\ ~b.is_duplicate =>
        a.risk_score = IF b.risk_score + 30 < 100 THEN b.risk_score + 30
                       ELSE 100)
  /\ (b.is_duplicate /\ ~a.is_duplicate =>
        b.risk_score = IF a.risk_score + 30 < 100 THEN a.risk_score + 30
                       ELSE 100)

\* C9: two validate calls in a row with the same input, in the same
\* variant and on the same index, return profiles equal in every field,
\* is_duplicate and its flag and score aside
C9_Deterministic ==
  [][(/\ Validated
      /\ last'.kind = "returned" /\ last'.via = "validate"
      /\ last'.variant = last.variant
      /\ last'.input = last.input
      /\ db' = db) => SameAside(last.profile, last'.profile)]_vars

\* a repeated query whose first tier selects several records
C9_Witness ==
  /\ Validated
  /\ last.repeat
  /\ last.m # 0
  /\ Cardinality(Tier1Rows(db.rows, last.term,
                           input_district(postcode(last.input)))) > 1

\* C10: a build that runs alone after a build that ran alone, over the
\* same files, leaves the same multiset of (name1, kind, postcode_district)
\* as the first, whatever the index held before the first
C10_RebuildSameMultiset ==
  lastBuild.rebuilt => lastBuild.bag = lastBuild.prev

\* two builds in a row over an index that held another record before
C10_Witness ==
  /\ lastBuild.rebuilt
  /\ db0 = StaleDb
  /\ Len(db.rows) > 1
  /\ lastBuild.bag # KeyBag(db0.rows)

\* the last build succeeded, ran alone, and nothing has been started since
BuiltAlone ==
  /\ lastBuild.status = "ok"
  /\ lastBuild.isolated
  /\ \A p \in Procs : ~Building(p)

\* a raw row projected to the eight kept columns
EightColumns(r) ==
  [c \in {"ID", "NAME1", "LOCAL_TYPE", "POSTCODE_DISTRICT", "POPULATED_PLACE",
          "DISTRICT_BOROUGH", "COUNTY_UNITARY", "COUNTRY"} |-> r[c]]

\* the places in the raw files where a row of a recognized type projects to r
SourceOccurrences(r) ==
  UNION {{<<f.name, i>> :
            i \in {k \in 1..Len(f.rows) :
                     /\ f.rows[k].LOCAL_TYPE
                          \in {"Postcode", "Named Road", "Village", "Hamlet"}
                     /\ EightColumns(f.rows[k]) = r}} : f \in data_dir.files}

IndexOccurrences(r) == {i \in 1..Len(db.rows) : db.rows[i] = r}

\* every record that is in the index, was in it before, or is in a raw file
CandidateRecords ==
  {db.rows[i] : i \in 1..Len(db.rows)}
  \cup {db0.rows[i] : i \in 1..Len(db0.rows)}
  \cup UNION {{EightColumns(f.rows[i]) : i \in 1..Len(f.rows)} :
                f \in data_dir.files}

\* C11: after a successful build the index holds exactly the rows of the
\* raw files whose LOCAL_TYPE is Postcode, Named Road, Village or Hamlet,
\* projected to the eight kept columns, each as often as the files hold
\* it, and nothing of the previous index
C11_ExactlyRecognizedRows ==
  BuiltAlone =>
    \A r \in CandidateRecords :
      Cardinality(IndexOccurrences(r)) = Cardinality(SourceOccurrences(r))

\* a build over an index that held another record, from files that hold a
\* row of an unrecognized type
C11_Witness ==
  /\ BuiltAlone
  /\ db0 = StaleDb
  /\ \E f \in data_dir.files : \E i \in 1..Len(f.rows) :
       f.rows[i].LOCAL_TYPE = "City"
  /\ Len(db.rows) > 1

(***************************************************************************)
(* validate_and_unify alone with a script that rebuilds: caller 1 takes    *)
(* requests, caller 2 runs createAddressDB                                 *)
(***************************************************************************)
\* the addresses of the extraction states
UnifyInputs ==
  { Address(<<>>, <<>>, "road", <<>>, <<>>),
    [raw |-> <<" ">>, parsed |-> <<>>],
    [raw |-> <<"N", "o", "n", "e">>,
     parsed |-> <<Tok(<<"n", "o", "n", "e">>, "house")>>],
    [raw |-> <<"u", "n", "k", "n", "o", "w", "n", " ">>,
     parsed |-> <<Tok(<<"u", "n", "k", "n", "o", "w", "n">>, "house")>>],
    Address(<<>>, <<"a", "b">>, "road", <<>>, <<"e", "1">>),
    Address(<<>>, <<"a", "_">>, "house", <<>>, <<"z", "z">>) }

NextUnify ==
  \/ UnifyStart(1, UnifyInputs)
  \/ CtorCheck(1)
  \/ Validate(1, UnifyInputs)
  \/ ScriptStart(2)
  \/ \E p \in Procs :
       \/ BuildStart(p, UnifyInputs)
       \/ BuildDrop(p)
       \/ BuildAppend(p, UnifyInputs)
       \/ BuildIndex(p, UnifyInputs)

SpecUnify == Init /\ [][NextUnify]_vars

\* the profile address_not_found_response is to give
IsFallbackProfile(profile) ==
  /\ ~profile.is_valid
  /\ profile.classification = "UNKNOWN"
  /\ profile.risk_score = 100
  /\ profile.confidence_level = "LOW"
  /\ profile.risk_flags = <<"ADDRESS COULD NOT BE PARSED">>

\* C12: every validate_and_unify call ends with a profile and none with an
\* exception; a missing, empty, 'none' or 'unknown' address, and any
\* exception from constructing AddressAgent or from validate, end with the
\* fallback profile (not valid, UNKNOWN, 100, LOW, [ADDRESS COULD NOT BE
\* PARSED])
C12_UnifyAlwaysProfile ==
  [][/\ (last'.via = "fallback" =>
           last'.kind = "returned" /\ IsFallbackProfile(last'.profile))
     /\ \A p \in Procs :
          (origin[p] = "unify" /\ pc[p] # "idle" /\ pc'[p] = "idle") =>
            /\ last'.kind = "returned"
            /\ (NoAddress(last'.input) => last'.via = "fallback")]_vars

\* a call whose validate met a database without table
C12_Witness ==
  /\ last.via = "fallback"
  /\ last.error = "OperationalError"
  /\ last.kind = "returned"

\* the call that just ended matched a record
Matched == Validated /\ last.m # 0

\* the record the call matched
MatchedRow == db.rows[last.m]

HasFlag(profile, f) ==
  \E i \in 1..Len(profile.risk_flags) : profile.risk_flags[i] = f

IsTierFlag(f) ==
  f \in {"PARTIAL_POSTCODE_DISTRICT", "MISSING_OR_INVALID_POSTCODE"}

\* the postcode tier as the rule orders it: full pattern, then district
\* pattern or no postcode beside a record with a district, then the rest
PostcodeTier(code, row) ==
  IF FullUkPostcode(code)
  THEN [flags |-> <<>>, weight |-> 0, confidence |-> "HIGH"]
  ELSE IF dist_pc_pattern(code) \/ (code = <<>> /\ row.POSTCODE_DISTRICT # NULL)
  THEN [flags |-> <<"PARTIAL_POSTCODE_DISTRICT">>, weight |-> 10,
        confidence |-> "MEDIUM"]
  ELSE [flags |-> <<"MISSING_OR_INVALID_POSTCODE">>, weight |-> 30,
        confidence |-> "LOW"]

\* the score of a matched profile whose postcode tier weighs w
ScoreWithTier(profile, w) ==
  LET sum == (IF HasFlag(profile, "GEOGRAPHIC_AREA_MISMATCH") THEN 40 ELSE 0)
             + w + (IF profile.is_duplicate THEN 30 ELSE 0)
  IN IF sum < 100 THEN sum ELSE 100

\* C13: for a matched query the postcode tier is HIGH without flag for a
\* full postcode, else MEDIUM with PARTIAL_POSTCODE_DISTRICT and +10 for a
\* district or for no postcode beside a record with a district, else LOW
\* with MISSING_OR_INVALID_POSTCODE and +30
C13_PostcodeTierOrder ==
  Matched =>
    LET tier == PostcodeTier(postcode(last.input), MatchedRow)
    IN /\ last.profile.confidence_level = tier.confidence
       /\ SelectSeq(last.profile.risk_flags, IsTierFlag) = tier.flags
       /\ last.profile.risk_score = ScoreWithTier(last.profile, tier.weight)

\* the area context is given and names neither of the record's two areas
AreaDiffers(ctx, row) ==
  /\ ctx # <<>>
  /\ \A f \in {row.POPULATED_PLACE, row.DISTRICT_BOROUGH} :
       f # NULL => Upper(f) # ctx

\* C14: a matched profile carries GEOGRAPHIC_AREA_MISMATCH (and its 40
\* points) exactly when the query's area context is non-empty and equals,
\* ignoring case, neither the record's non-empty populated place nor its
\* district borough
C14_AreaMismatchExactly ==
  Matched =>
    LET differs == AreaDiffers(user_area_context(last.input.parsed), MatchedRow)
    IN /\ HasFlag(last.profile, "GEOGRAPHIC_AREA_MISMATCH") <=> differs
       /\ differs => last.profile.risk_score >= 40
       /\ ~differs => last.profile.risk_score <= 60

\* a mismatch against a record that has a borough, and a query whose area
\* is the record's place but not its borough
C14_Witness ==
  /\ Matched
  /\ MatchedRow.POPULATED_PLACE # NULL
  /\ MatchedRow.DISTRICT_BOROUGH # NULL
  /\ user_area_context(last.input.parsed) = Upper(MatchedRow.POPULATED_PLACE)
  /\ ~HasFlag(last.profile, "GEOGRAPHIC_AREA_MISMATCH")

\* the kinds of record the classification takes for a residence
ResidentialKinds ==
  {"Postcode", "Named Road", "Hamlet", "Village", "Other Settlement"}

\* C15: a matched profile is RESIDENTIAL when the record's kind is Postcode,
\* Named Road, Hamlet, Village or Other Settlement and BUSINESS for any
\* other kind; a returned profile is UNKNOWN only when nothing matched
C15_Classification ==
  Validated =>
    /\ last.m # 0 =>
         last.profile.classification =
           IF MatchedRow.LOCAL_TYPE \in ResidentialKinds
           THEN "RESIDENTIAL" ELSE "BUSINESS"
    /\ last.profile.classification = "UNKNOWN" => last.m = 0

\* a query answered from a record of an unlisted kind
C15_Witness ==
  /\ Matched
  /\ MatchedRow.LOCAL_TYPE \notin ResidentialKinds
  /\ last.profile.classification = "BUSINESS"

\* the profiles the call gives when it runs alone on the index: the first
\* selected record of each query, either draw of the duplicate check
AloneProfiles(variant, input, term, rows) ==
  LET district == input_district(postcode(input))
      m == db_match(term, district,
                    First(Tier1Rows(rows, term, district)),
                    First(Tier2Rows(rows, term)))
  IN {Profile(variant, input, term, rows, m, d) : d \in BOOLEAN}

\* C16: a validate call, matched, unmatched or raising, leaves the table
\* and the order of its records as they were, and a call that runs beside
\* other callers on one index returns a profile it returns alone on it
C16_ValidateReadOnly ==
  [][(\E p \in Procs : pc[p] = "ready" /\ last'.kind # "none") =>
       /\ db'.table = db.table
       /\ db'.rows = db.rows
       /\ db'.idx = db.idx
       /\ last'.kind = "returned" /\ last'.via = "validate" =>
            last'.profile \in AloneProfiles(last'.variant, last'.input,
                                            last'.term, db.rows)]_vars

\* a matched call that follows the same call while every caller holds an
\* agent on the index
C16_Witness ==
  /\ Matched
  /\ last.repeat
  /\ \A p \in Procs : pc[p] = "ready"

\* the flags of validate in the order its rules run
FlagOrder ==
  <<"ADDRESS_NOT_IN_DATABASE", "GEOGRAPHIC_AREA_MISMATCH",
    "PARTIAL_POSTCODE_DISTRICT", "MISSING_OR_INVALID_POSTCODE",
    "DUPLICATE ADDRESSES TRACKED">>

FlagWeight(f) ==
  CASE f = "ADDRESS_NOT_IN_DATABASE" -> 90
    [] f = "GEOGRAPHIC_AREA_MISMATCH" -> 40
    [] f = "PARTIAL_POSTCODE_DISTRICT" -> 10
    [] f = "MISSING_OR_INVALID_POSTCODE" -> 30
    [] f = "DUPLICATE ADDRESSES TRACKED" -> 30
    [] OTHER -> 0

RECURSIVE SumWeights(_)
SumWeights(flags) ==
  IF flags = <<>> THEN 0
  ELSE FlagWeight(Head(flags)) + SumWeights(Tail(flags))

\* C17: in every profile validate returns, risk_flags holds its flags in
\* rule order (area mismatch, postcode tier, duplicate), none twice,
\* risk_score is min(100, sum of the weights of the flags present), and
\* PARTIAL_POSTCODE_DISTRICT and MISSING_OR_INVALID_POSTCODE are not both
\* present
C17_FlagsOrderedScoreAdditive ==
  Validated =>
    LET flags == last.profile.risk_flags
        Present(f) == HasFlag(last.profile, f)
        sum == SumWeights(flags)
    IN /\ flags = SelectSeq(FlagOrder, Present)
       /\ last.profile.risk_score = IF sum < 100 THEN sum ELSE 100
       /\ ~(Present("PARTIAL_POSTCODE_DISTRICT")
            /\ Present("MISSING_OR_INVALID_POSTCODE"))

\* a profile with the three flags a matched query can collect, whose sum
\* meets the limit
C17_Witness ==
  /\ Matched
  /\ last.profile.risk_flags =
       <<"GEOGRAPHIC_AREA_MISMATCH", "MISSING_OR_INVALID_POSTCODE",
         "DUPLICATE ADDRESSES TRACKED">>
  /\ last.profile.risk_score = 100

\* the query of the call that just ended names record i exactly and gives
\* a district that record i's district does not start with
ExactNameOtherDistrict(i) ==
  LET district == input_district(postcode(last.input))
  IN /\ last.kind = "returned" /\ last.via = "validate"
     /\ i \in ExactRows(db.rows, last.term)
     /\ district # <<>>
     /\ \/ db.rows[i].POSTCODE_DISTRICT = NULL
        \/ ~StartsWith(Upper(db.rows[i].POSTCODE_DISTRICT), district)

\* the area flag and its 40 points, when the query's area differs from row's
AreaFlagged(row) ==
  AreaDiffers(user_area_context(last.input.parsed), row) =>
    /\ HasFlag(last.profile, "GEOGRAPHIC_AREA_MISMATCH")
    /\ last.profile.risk_score >= 40

\* C18 as stated: such a query is matched through the exact-name fallback,
\* to a record of exactly that name, and the area check applies to it
C18_AsStated ==
  \A i \in 1..Len(db.rows) :
    ExactNameOtherDistrict(i) =>
      /\ last.profile.is_valid
      /\ last.m \in ExactRows(db.rows, last.term)
      /\ AreaFlagged(db.rows[last.m])

\* C18: a query whose search_term equals a stored name1 exactly but whose
\* district does not prefix-match that record's district is still matched
\* (is_valid true): through the exact-name fallback, to the first record of
\* that name, when no record has both a name and a district starting with
\* the query's; if its area_context is non-empty and differs from the
\* matched record's populated_place and district_borough, risk_flags
\* contains GEOGRAPHIC_AREA_MISMATCH and risk_score >= 40
C18_ExactNameStillMatched ==
  \A i \in 1..Len(db.rows) :
    ExactNameOtherDistrict(i) =>
      /\ last.profile.is_valid
      /\ last.m # 0
      /\ PrefixRows(db.rows, last.term,
                    input_district(postcode(last.input))) = {} =>
           last.m = First(ExactRows(db.rows, last.term))
      /\ AreaFlagged(db.rows[last.m])

\* a query matched by the fallback alone whose area is not the record's
C18_Witness ==
  /\ ExactNameOtherDistrict(last.m)
  /\ PrefixRows(db.rows, last.term,
                input_district(postcode(last.input))) = {}
  /\ HasFlag(last.profile, "GEOGRAPHIC_AREA_MISMATCH")
  /\ last.profile.risk_score >= 40

\* C19: the record order a build leaves is the same for every order in
\* which the build can enumerate the files of the data directory, so that
\* a query with several candidates gets the same record after any rebuild
C19_OrderIndependentOfEnumeration ==
  BuiltAlone => \A files \in glob(data_dir) : db.rows = Ingest(files)

\* a raw file of the data directory holds a row with a wrong column count
HasMalformedRow ==
  \E f \in data_dir.files :
    ~IsHeaderName(f) /\ \E i \in 1..Len(f.rows) : TooManyFields(f.rows[i])

\* the well-formed rows of a recognized type, as the index is to hold them
WellFormedRecognized ==
  UNION {{EightColumns(f.rows[i]) :
            i \in {k \in 1..Len(f.rows) :
                     /\ ~TooManyFields(f.rows[k])
                     /\ f.rows[k].LOCAL_TYPE
                          \in {"Postcode", "Named Road", "Village", "Hamlet"}}} :
         f \in {g \in data_dir.files : ~IsHeaderName(g)}}

\* C20: a build over files that hold a malformed row completes, and the
\* index then holds every well-formed row of a recognized type of that
\* file and of the other files
C20_MalformedRowSkipped ==
  (/\ HasMalformedRow
   /\ header_file
   /\ lastBuild.status # "none"
   /\ lastBuild.isolated
   /\ \A p \in Procs : ~Building(p)) =>
    /\ lastBuild.status = "ok"
    /\ \A r \in WellFormedRecognized :
         \E i \in 1..Len(db.rows) : db.rows[i] = r

\* C21: every record of the index a build leaves has a non-empty name1; a
\* raw row of a recognized type without NAME1 is left out
C21_NonEmptyName ==
  BuiltAlone => \A i \in 1..Len(db.rows) : db.rows[i].NAME1 # NULL

\* the call that just ended ran a variant with duplicate detection
DuplicateChecked == Validated /\ last.variant \in {"DQ", "ORCH"}

\* C22: in the variants with duplicate detection the duplicate flag is in
\* risk_flags exactly when is_duplicate is true, then once and after every
\* other flag, and risk_score is min(score of the other rules + 30, 100);
\* when is_duplicate is false score and flags are those of the other rules
C22_DuplicateRule ==
  DuplicateChecked =>
    LET flags == last.profile.risk_flags
        others == SelectSeq(flags, IsNotDuplicateFlag)
        before == SumWeights(others)
    IN /\ HasFlag(last.profile, "DUPLICATE ADDRESSES TRACKED")
            <=> last.profile.is_duplicate
       /\ last.profile.is_duplicate =>
            /\ flags = others \o <<"DUPLICATE ADDRESSES TRACKED">>
            /\ last.profile.risk_score =
                 IF before + 30 < 100 THEN before + 30 ELSE 100
       /\ ~last.profile.is_duplicate =>
            /\ flags = others
            /\ last.profile.risk_score = before

\* a duplicate of a matched address: the 30 points are added in full
C22_Witness ==
  /\ DuplicateChecked
  /\ last.m # 0
  /\ last.profile.is_duplicate
  /\ last.profile.risk_flags =
       <<"PARTIAL_POSTCODE_DISTRICT", "DUPLICATE ADDRESSES TRACKED">>
  /\ last.profile.risk_score = 40

\* the standardized addresses the parts named by the rule give: the query
\* postcode, else the record's district, else an unknown marker; the
\* record's name, else the search term
AddressFromParts ==
  LET code == postcode(last.input)
      name == IF last.m # 0 THEN MatchedRow.NAME1 ELSE last.term
      codes == IF code # <<>> THEN {code}
               ELSE IF last.m # 0 THEN {MatchedRow.POSTCODE_DISTRICT}
               ELSE {s_UNKNOWN, s_UNKNOWN_POSTCODE}
  IN {full_std_addr(house_no(last.input.parsed), name, c) : c \in codes}

\* C23: standardized_address is made of the query postcode when non-empty,
\* else the matched record's postcode_district, else an unknown marker,
\* and of the matched record's name1, else the search_term; it neither
\* begins nor ends with a comma or a space
C23_StandardizedAddress ==
  Validated =>
    LET a == last.profile.standardized_address
    IN /\ a \in AddressFromParts
       /\ a # <<>> => a[1] \notin {",", " "} /\ a[Len(a)] \notin {",", " "}

(***************************************************************************)
(* createAddressDB alone: scripts that build, over the installations and   *)
(* over one whose data directory lies under a folder named "headers"       *)
(***************************************************************************)
HeadersCsv == <<"h", "e", "a", "d", "e", "r", "s", "/", "c", "s", "v">>

BuildEnvironments ==
  Environments \cup
  { [header_file |-> TRUE,
     data_dir |-> [exists |-> TRUE, path |-> HeadersCsv,
                   files |-> {FileA, FileB}]] }

InitBuild ==
  /\ \E e \in BuildEnvironments :
       header_file = e.header_file /\ data_dir = e.data_dir
  /\ db \in {NoDb, StaleDb}
  /\ db0 = db
  /\ pc = [p \in Procs |-> "idle"]
  /\ origin = [p \in Procs |-> "script"]
  /\ todo = [p \in Procs |-> <<>>]
  /\ overlap = [p \in Procs |-> FALSE]
  /\ builds = 0
  /\ lastBuild = NoBuild
  /\ last = NoCall

NextBuild ==
  \E p \in Procs :
    \/ ScriptStart(p)
    \/ BuildStart(p, SystemInputs)
    \/ BuildDrop(p)
    \/ BuildAppend(p, SystemInputs)
    \/ BuildIndex(p, SystemInputs)

SpecBuild == InitBuild /\ [][NextBuild]_vars

\* C24: a build skips a .csv file of the data directory only if it is the
\* header file; with data files present and well-formed it completes and
\* the index holds the recognized rows of all of them, wherever the data
\* directory lies
C24_EveryDataFileIngested ==
  (/\ SourcesPresent
   /\ ~HasMalformedRow
   /\ \E f \in data_dir.files : ~IsHeaderName(f)
   /\ lastBuild.status # "none"
   /\ lastBuild.isolated
   /\ \A p \in Procs : ~Building(p)) =>
    /\ lastBuild.status = "ok"
    /\ \A r \in WellFormedRecognized :
         \E i \in 1..Len(db.rows) : db.rows[i] = r

\* the call that just ended matched a record with a district and gave no
\* postcode
NoPostcodeButDistrict ==
  /\ Matched
  /\ postcode(last.input) = <<>>
  /\ MatchedRow.POSTCODE_DISTRICT # NULL

\* C25: a matched query without postcode whose record has a non-empty
\* postcode_district gets PARTIAL_POSTCODE_DISTRICT and MEDIUM, in every
\* variant
C25_DistrictFromRecord ==
  NoPostcodeButDistrict =>
    /\ HasFlag(last.profile, "PARTIAL_POSTCODE_DISTRICT")
    /\ ~HasFlag(last.profile, "MISSING_OR_INVALID_POSTCODE")
    /\ last.profile.confidence_level = "MEDIUM"

\* the orchestrator's copy answering a road given without postcode
C25_Witness ==
  /\ NoPostcodeButDistrict
  /\ last.variant = "ORCH"
  /\ last.profile.confidence_level = "MEDIUM"

\* the fields of the profile that say whether a record matched, os_id aside
MatchFieldsAgree(profile) ==
  /\ profile.is_valid <=> profile.classification # "UNKNOWN"
  /\ profile.is_valid <=> ~HasFlag(profile, "ADDRESS_NOT_IN_DATABASE")
  /\ ~profile.is_valid =>
       /\ profile.populated_place = NULL
       /\ profile.district_borough = NULL
       /\ profile.county = "None"

\* C26 as stated: in every profile validate returns, is_valid, a
\* classification other than UNKNOWN, the absence of
\* ADDRESS_NOT_IN_DATABASE and a set os_id go together, and place, borough
\* and county are None when is_valid is false
C26_AsStated ==
  Validated =>
    /\ MatchFieldsAgree(last.profile)
    /\ last.profile.is_valid <=> last.profile.provider_metadata.os_id # "None"

\* C26: in every profile validate returns, is_valid, a classification other
\* than UNKNOWN and the absence of ADDRESS_NOT_IN_DATABASE go together;
\* os_id is the matched record's ID when is_valid is true, set only if the
\* record has one, and None when is_valid is false; place, borough and
\* county are None when is_valid is false
C26_MatchFieldsAgree ==
  Validated =>
    /\ MatchFieldsAgree(last.profile)
    /\ last.profile.is_valid <=> last.m # 0
    /\ last.profile.provider_metadata.os_id =
         IF last.profile.is_valid THEN MatchedRow.ID ELSE "None"

\* a match on a record of an unlisted kind that has an ID
C26_Witness ==
  /\ Matched
  /\ last.profile.is_valid
  /\ last.profile.classification = "BUSINESS"
  /\ last.profile.provider_metadata.os_id = "osgb8"

\* the index is one initialize_database leaves over the data directory
BuiltIndex == db \in {BuiltDb(files) : files \in glob(data_dir)}

\* C27: over an index initialize_database produced, every stored record is
\* a Postcode, Named Road, Village or Hamlet, and validate returns
\* RESIDENTIAL or UNKNOWN, never BUSINESS
C27_NoBusinessOverBuiltIndex ==
  BuiltIndex =>
    /\ \A i \in 1..Len(db.rows) :
         db.rows[i].LOCAL_TYPE \in {"Postcode", "Named Road", "Village", "Hamlet"}
    /\ Validated => last.profile.classification \in {"RESIDENTIAL", "UNKNOWN"}

\* a query answered from a road while the raw files hold a city of the
\* same name
C27_Witness ==
  /\ BuiltIndex
  /\ Matched
  /\ last.profile.classification = "RESIDENTIAL"
  /\ \E f \in data_dir.files : \E i \in 1..Len(f.rows) :
       /\ f.rows[i].LOCAL_TYPE = "City"
       /\ f.rows[i].NAME1 # NULL
       /\ Upper(f.rows[i].NAME1) = last.term

\* C28: when validate returns is_valid true, the matched record's
\* uppercase name1 starts with the search_term, and either equals it (the
\* exact-name fallback) or the record's uppercase postcode_district starts
\* with the query's district (the refined tier)
C28_MatchedNameHasPrefix ==
  Matched =>
    LET district == input_district(postcode(last.input))
        name == Upper(MatchedRow.NAME1)
    IN /\ last.profile.is_valid
       /\ StartsWith(name, last.term)
       /\ \/ name = last.term
          \/ /\ district # <<>>
             /\ MatchedRow.POSTCODE_DISTRICT # NULL
             /\ StartsWith(Upper(MatchedRow.POSTCODE_DISTRICT), district)

\* C29: whatever constructions and builds have run, failed ones included,
\* an index file that exists while no build is running holds the os_data
\* table, and no validate call fails on a missing table
C29_ExistingIndexUsable ==
  /\ (db.file /\ \A p \in Procs : ~Building(p)) => db.table
  /\ (last.via = "validate" /\ last.kind = "raised") =>
       last.error # "OperationalError"

\* the fields the copies of validate are compared on
SameAnswer(a, b) ==
  /\ a.is_valid = b.is_valid
  /\ a.classification = b.classification
  /\ a.risk_score = b.risk_score
  /\ a.risk_flags = b.risk_flags
  /\ a.confidence_level = b.confidence_level
  /\ a.standardized_address = b.standardized_address

\* C30: with is_duplicate false, validate of LBG_IPI_DQ_CHECKS and of
\* LBG_Integration_Orchestrator return the same is_valid, classification,
\* risk_score, risk_flags, confidence_level and standardized_address as
\* validate of AddressValidator_Agent for the same input on the same index
C30_CopiesAgree ==
  (Validated /\ last.variant \in {"DQ", "ORCH"} /\ ~last.profile.is_duplicate) =>
    SameAnswer(last.profile,
               Profile("AVA", last.input, last.term, db.rows, last.m, FALSE))
====
